---- MODULE Spec2Model ----
(***************************************************************************)
(* Verification model of MCP-Local-DunkMaster.                             *)
(*                                                                         *)
(* The repository has two entry points over the same CSV data directory:   *)
(*   src/server.py            STDIO MCP server, tables loaded in main()    *)
(*   src/http_stats_server.py HTTP JSON-RPC bridge, tables loaded lazily   *)
(*                                                                         *)
(* Spec       the two servers as state machines (a run is one of them)     *)
(* SpecMatch  _match_team_row applied to bounded tables and queries        *)
(* SpecTop    top_scorers / tool_top_scorers applied to bounded tables     *)
(* SpecAgg    player_summary / compare_players / tool_compare_players      *)
(* SpecTeam   team_summary / tool_team_summary applied to bounded tables   *)
(* SpecPct    _pct applied once and twice to bounded stored values         *)
(***************************************************************************)
EXTENDS Integers, Sequences, FiniteSets, TLC

VARIABLES
    prog,              \* which entry point runs: "http" or "stdio" ("none" in the function specs)
    disk,              \* the data directory: [dir, present, gen]
    players_per_game,  \* http_stats_server.py globals, None until loaded
    players_totals,
    team_summaries,
    team_stats_pg,
    TABLES,            \* server.py global, None until main() loaded it
    pc,                \* server.py process: "start", "serving", "exit"
    reads,             \* files read with pd.read_csv by the step that led here
    resp,              \* the response returned by the last request
    inp,               \* function specs: the arguments the operation is applied to
    out                \* function specs: the value the operation returned

vars == <<prog, disk, players_per_game, players_totals, team_summaries,
          team_stats_pg, TABLES, pc, reads, resp, inp, out>>

serverVars == <<prog, disk, players_per_game, players_totals, team_summaries,
                team_stats_pg, TABLES, pc, reads, resp>>

(***************************************************************************)
(* Bounds                                                                  *)
(***************************************************************************)
\* number of distinct content generations the data directory goes through
NumVersions == 2

(***************************************************************************)
(* The data directory                                                      *)
(***************************************************************************)
None == 0

PerGameCsv == "Player Per Game.csv"
TotalsCsv == "Player Totals.csv"
TeamSummCsv == "Team Summaries.csv"
TeamStatsCsv == "Team Stats Per Game.csv"

\* the files load_tables() reads, in the order it reads them
StdioFiles ==
    <<"Player Per Game.csv", "Per 36 Minutes.csv", "Per 100 Poss.csv",
      "Player Totals.csv", "Player Career Info.csv", "All-Star Selections.csv",
      "Player Award Shares.csv", "Team Summaries.csv">>

HttpFiles == {PerGameCsv, TotalsCsv, TeamSummCsv, TeamStatsCsv}

Range(s) == {s[i] : i \in DOMAIN s}

FilesOf(p) == IF p = "http" THEN HttpFiles ELSE Range(StdioFiles)

AllFiles == HttpFiles \cup Range(StdioFiles)

\* The directory states a run of program p starts from: the files p never
\* opens stay in place; a directory that does not exist holds no file.  Only
\* main() of server.py looks at the directory itself; to the HTTP bridge a
\* missing directory is a directory without files.
DiskStates(p) ==
    {[dir |-> TRUE, present |-> (AllFiles \ FilesOf(p)) \cup s, gen |-> 1] :
        s \in SUBSET FilesOf(p)}
    \cup (IF p = "stdio" THEN {[dir |-> FALSE, present |-> {}, gen |-> 1]} ELSE {})

\* p.exists()
Exists(d, f) == d.dir /\ f \in d.present

\* pd.read_csv(p): the frame holds the file's current content
ReadCsv(d, f) == d.gen

(***************************************************************************)
(* http_stats_server.py: lazy loading                                      *)
(***************************************************************************)
\* _ensure_loaded() with the `is None` guards dropped: reads on every call
EnsureLoadedAlways(ppg, pt, d) ==
    IF ~Exists(d, PerGameCsv)
    THEN [ppg |-> ppg, pt |-> pt, raised |-> TRUE, reads |-> {}]
    ELSE IF ~Exists(d, TotalsCsv)
         THEN [ppg |-> ReadCsv(d, PerGameCsv), pt |-> pt, raised |-> TRUE,
               reads |-> {PerGameCsv}]
         ELSE [ppg |-> ReadCsv(d, PerGameCsv), pt |-> ReadCsv(d, TotalsCsv),
               raised |-> FALSE, reads |-> {PerGameCsv, TotalsCsv}]

\* _ensure_loaded(): the globals after the call, whether FileNotFoundError
\* was raised, and the files read
EnsureLoaded(ppg, pt, d) ==
    IF ppg = None /\ ~Exists(d, PerGameCsv)
    THEN [ppg |-> ppg, pt |-> pt, raised |-> TRUE, reads |-> {}]
    ELSE LET ppg1 == IF ppg = None THEN ReadCsv(d, PerGameCsv) ELSE ppg
             r1 == IF ppg = None THEN {PerGameCsv} ELSE {}
         IN IF pt = None /\ ~Exists(d, TotalsCsv)
            THEN [ppg |-> ppg1, pt |-> pt, raised |-> TRUE, reads |-> r1]
            ELSE [ppg |-> ppg1,
                  pt |-> IF pt = None THEN ReadCsv(d, TotalsCsv) ELSE pt,
                  raised |-> FALSE,
                  reads |-> r1 \cup (IF pt = None THEN {TotalsCsv} ELSE {})]

\* _load_csv(name): the frame read, or FileNotFoundError
LoadCsv(d, f) ==
    IF Exists(d, f) THEN [raised |-> FALSE, df |-> ReadCsv(d, f)]
                    ELSE [raised |-> TRUE, df |-> None]

\* _ensure_loaded_teams()
EnsureLoadedTeams(ts, tsp, d) ==
    LET l1 == LoadCsv(d, TeamSummCsv)
        l2 == LoadCsv(d, TeamStatsCsv)
    IN IF ts = None /\ l1.raised
       THEN [ts |-> ts, tsp |-> tsp, raised |-> TRUE, reads |-> {}]
       ELSE LET ts1 == IF ts = None THEN l1.df ELSE ts
                r1 == IF ts = None THEN {TeamSummCsv} ELSE {}
            IN IF tsp = None /\ l2.raised
               THEN [ts |-> ts1, tsp |-> tsp, raised |-> TRUE, reads |-> r1]
               ELSE [ts |-> ts1,
                     tsp |-> IF tsp = None THEN l2.df ELSE tsp,
                     raised |-> FALSE,
                     reads |-> r1 \cup (IF tsp = None THEN {TeamStatsCsv} ELSE {})]

(***************************************************************************)
(* http_stats_server.py: the four tools.  A tool call is abstracted by how *)
(* its arguments meet the loaded data:                                     *)
(*   "hit"      well-typed arguments that match rows                       *)
(*   "miss"     well-typed arguments that match no row                     *)
(*   "absent"   the argument bag is empty: every argument takes its default*)
(*   "badtype"  an argument of the wrong type (player = 123, season = "x") *)
(*   "dataerr"  the matched data makes the tool raise (a column it indexes *)
(*              is absent, int() of a missing value)                       *)
(*   "notobject" the argument bag is not an object (a non-empty list)      *)
(* A tool returns the globals after the call, the files read, the          *)
(* exception raised ("" for none) and the text returned.                   *)
(***************************************************************************)
ArgKinds == {"hit", "miss", "absent", "badtype", "dataerr", "notobject"}

ToolNames == {"player_summary", "top_scorers", "compare_players", "team_summary"}

Raise(g, r, e) == [g |-> g, reads |-> r, exc |-> e, text |-> ""]

Return(g, r, t) == [g |-> g, reads |-> r, exc |-> "", text |-> t]

\* the player tools start with _ensure_loaded()
AfterEnsureLoaded(g, d) ==
    LET e == EnsureLoaded(g.ppg, g.pt, d)
    IN [g |-> [g EXCEPT !.ppg = e.ppg, !.pt = e.pt], raised |-> e.raised,
        reads |-> e.reads]

AfterEnsureLoadedTeams(g, d) ==
    LET e == EnsureLoadedTeams(g.ts, g.tsp, d)
    IN [g |-> [g EXCEPT !.ts = e.ts, !.tsp = e.tsp], raised |-> e.raised,
        reads |-> e.reads]

tool_player_summary(g, d, k) ==
    LET e == AfterEnsureLoaded(g, d)
    IN IF e.raised THEN Raise(e.g, e.reads, "FileNotFoundError")
       ELSE IF k = "badtype" THEN Raise(e.g, e.reads, "AttributeError")
       ELSE IF k = "dataerr" THEN Raise(e.g, e.reads, "KeyError")
       ELSE IF k \in {"miss", "absent"} THEN Return(e.g, e.reads, "No stats for")
       ELSE Return(e.g, e.reads, "Career averages")

\* tool_top_scorers() that sorts players_per_game itself (no .copy(), sort
\* in place): the frame held afterwards is not the frame that was read, which
\* the negated content stands for
tool_top_scorersInPlace(g, d, k) ==
    LET e == AfterEnsureLoaded(g, d)
        sorted == [e.g EXCEPT !.ppg = 0 - @]
    IN IF e.raised THEN Raise(e.g, e.reads, "FileNotFoundError")
       ELSE IF k = "dataerr" THEN Raise(e.g, e.reads, "KeyError")
       ELSE IF k \in {"miss", "absent"} THEN Return(e.g, e.reads, "No season data for")
       ELSE Return(sorted, e.reads, "Top scorers")

\* int(season), int(n) were applied by the caller
tool_top_scorers(g, d, k) ==
    LET e == AfterEnsureLoaded(g, d)
    IN IF e.raised THEN Raise(e.g, e.reads, "FileNotFoundError")
       ELSE IF k = "dataerr" THEN Raise(e.g, e.reads, "KeyError")
       ELSE IF k \in {"miss", "absent"} THEN Return(e.g, e.reads, "No season data for")
       ELSE Return(e.g, e.reads, "Top scorers")

tool_compare_players(g, d, k) ==
    LET e == AfterEnsureLoaded(g, d)
    IN IF e.raised THEN Raise(e.g, e.reads, "FileNotFoundError")
       ELSE IF k = "badtype" THEN Raise(e.g, e.reads, "AttributeError")
       ELSE IF k = "dataerr" THEN Raise(e.g, e.reads, "KeyError")
       ELSE IF k \in {"miss", "absent"}
            THEN Return(e.g, e.reads, "Not enough data for comparison.")
       ELSE Return(e.g, e.reads, "PPG APG RPG")

\* int(season) was applied by the caller; team goes through str()
tool_team_summary(g, d, k) ==
    LET e == AfterEnsureLoadedTeams(g, d)
    IN IF e.raised THEN Raise(e.g, e.reads, "FileNotFoundError")
       ELSE IF k = "dataerr" THEN Raise(e.g, e.reads, "ValueError")
       ELSE IF k \in {"miss", "absent"} THEN Return(e.g, e.reads, "No team summary for")
       ELSE Return(e.g, e.reads, "RS")

(***************************************************************************)
(* http_stats_server.py: the JSON-RPC endpoint                             *)
(***************************************************************************)
Methods == {"initialize", "tools/list", "tools/call", "shutdown", "bogus", "null"}

\* "params": an object, null or missing (both become {}), or a non-empty array
ParamShapes == {"object", "null", "array"}

\* One request per way the handler can go: a field the handler does not read
\* on that path is left at "null" / "absent".
Requests ==
    {r \in [method : Methods, params : ParamShapes,
            name : ToolNames \cup {"bogus", "null"}, args : ArgKinds] :
        /\ r.method # "tools/call" => r.params = "null"
        /\ r.params # "object" => r.name = "null"
        /\ r.name \notin ToolNames => r.args = "absent"}

NoResponse == [kind |-> "none", code |-> 0, msg |-> ""]

jsonrpc_result(result) == [kind |-> "result", code |-> 0, msg |-> result]

jsonrpc_error(code, message) == [kind |-> "error", code |-> code, msg |-> message]

\* an exception that leaves the handler
Escaped(e) == [kind |-> "escaped", code |-> 0, msg |-> e]

\* the body of the try block: the response returned or the exception raised
TryBlock(req, g, d) ==
    LET ret(r) == [g |-> g, reads |-> {}, exc |-> "", resp |-> r]
        tool(t) == [g |-> t.g, reads |-> t.reads, exc |-> t.exc,
                    resp |-> jsonrpc_result(t.text)]
        raise(e) == [g |-> g, reads |-> {}, exc |-> e, resp |-> NoResponse]
        \* params.get("name") when params is {} gives None
        name == IF req.params = "null" THEN "null" ELSE req.name
        args == IF req.params = "null" THEN "absent" ELSE req.args
    IN CASE req.method = "initialize" -> ret(jsonrpc_result("protocolVersion"))
         [] req.method = "tools/list" -> ret(jsonrpc_result("tools"))
         [] req.method = "tools/call" ->
                IF req.params = "array" THEN raise("AttributeError")
                ELSE IF name \notin ToolNames
                     THEN ret(jsonrpc_error(-32601, "Unknown tool"))
                ELSE IF args = "notobject" THEN raise("AttributeError")
                ELSE IF name = "player_summary"
                     THEN tool(tool_player_summary(g, d, args))
                ELSE IF name = "top_scorers"
                     THEN IF args = "badtype" THEN raise("ValueError")
                          ELSE tool(tool_top_scorers(g, d, args))
                ELSE IF name = "compare_players"
                     THEN tool(tool_compare_players(g, d, args))
                ELSE IF args = "badtype" THEN raise("ValueError")
                ELSE tool(tool_team_summary(g, d, args))
         [] req.method = "shutdown" -> ret(jsonrpc_result("ok"))
         [] OTHER -> ret(jsonrpc_error(-32601, "Method not found"))

\* a handler whose except clause names FileNotFoundError only
jsonrpcCatchMissingOnly(req, g, d) ==
    LET t == TryBlock(req, g, d)
    IN [g |-> t.g, reads |-> t.reads,
        resp |-> IF t.exc = "" THEN t.resp
                 ELSE IF t.exc = "FileNotFoundError" THEN jsonrpc_error(-32000, t.exc)
                 ELSE Escaped(t.exc)]

\* jsonrpc(request): try ... except Exception as e: error -32000, str(e)
jsonrpc(req, g, d) ==
    LET t == TryBlock(req, g, d)
    IN [g |-> t.g, reads |-> t.reads,
        resp |-> IF t.exc = "" THEN t.resp ELSE jsonrpc_error(-32000, t.exc)]

Globals == [ppg |-> players_per_game, pt |-> players_totals,
            ts |-> team_summaries, tsp |-> team_stats_pg]

\* one POST /jsonrpc request, served to completion
JsonRpc ==
    /\ prog = "http"
    /\ \E req \in Requests :
          LET r == jsonrpc(req, Globals, disk)
          IN /\ players_per_game' = r.g.ppg
             /\ players_totals' = r.g.pt
             /\ team_summaries' = r.g.ts
             /\ team_stats_pg' = r.g.tsp
             /\ reads' = r.reads
             /\ resp' = r.resp
    /\ UNCHANGED <<prog, disk, TABLES, pc, inp, out>>

(***************************************************************************)
(* server.py: load in main(), then serve                                   *)
(***************************************************************************)
RECURSIVE FirstMissing(_, _)
\* index of the first file of StdioFiles from i on that rd() does not find, 0 if none
FirstMissing(d, i) ==
    IF i > Len(StdioFiles) THEN 0
    ELSE IF ~Exists(d, StdioFiles[i]) THEN i
    ELSE FirstMissing(d, i + 1)

\* load_tables(data_dir): rd() raises FileNotFoundError at the first missing file
load_tables(d) ==
    LET m == FirstMissing(d, 1)
    IN IF m = 0
       THEN [raised |-> FALSE, tables |-> d.gen, reads |-> Range(StdioFiles)]
       ELSE [raised |-> TRUE, tables |-> None,
             reads |-> {StdioFiles[i] : i \in 1..(m - 1)}]

\* main(): SystemExit without the folder, the load, then the STDIO loop
Main ==
    /\ prog = "stdio"
    /\ pc = "start"
    /\ IF ~disk.dir
       THEN /\ pc' = "exit"
            /\ resp' = Escaped("SystemExit")
            /\ reads' = {}
            /\ UNCHANGED TABLES
       ELSE LET l == load_tables(disk)
            IN /\ reads' = l.reads
               /\ IF l.raised
                  THEN /\ pc' = "exit"
                       /\ resp' = Escaped("FileNotFoundError")
                       /\ UNCHANGED TABLES
                  ELSE /\ pc' = "serving"
                       /\ TABLES' = l.tables
                       /\ UNCHANGED resp
    /\ UNCHANGED <<prog, disk, players_per_game, players_totals, team_summaries,
                   team_stats_pg, inp, out>>

\* server.py _ensure_loaded(): RuntimeError when main() has not loaded
ServerEnsureLoaded(T) == T = None

StdioArgKinds == {"hit", "miss", "dataerr"}

\* a tool of server.py called through FastMCP: its return value, or the
\* exception FastMCP receives
StdioTool(T, name, k) ==
    IF ServerEnsureLoaded(T) THEN [kind |-> "raised", code |-> 0, msg |-> "RuntimeError"]
    ELSE IF k = "dataerr" THEN [kind |-> "raised", code |-> 0, msg |-> "KeyError"]
    ELSE IF k = "miss"
         THEN jsonrpc_result(CASE name = "top_scorers" -> "[]"
                               [] name = "compare_players" -> "basis player_a player_b"
                               [] OTHER -> "error not found")
    ELSE jsonrpc_result(name)

\* one tool call served by the STDIO loop; the tools assign nothing global
ToolCall ==
    /\ prog = "stdio"
    /\ pc = "serving"
    /\ \E name \in ToolNames, k \in StdioArgKinds :
          resp' = StdioTool(TABLES, name, k)
    /\ reads' = {}
    /\ UNCHANGED <<prog, disk, players_per_game, players_totals, team_summaries,
                   team_stats_pg, TABLES, pc, inp, out>>

(***************************************************************************)
(* The environment: the data directory changes under the running process  *)
(***************************************************************************)
\* a file of the directory appears or disappears
FileToggle ==
    /\ prog \in {"http", "stdio"}
    /\ disk.dir
    /\ \E f \in FilesOf(prog) :
          disk' = [disk EXCEPT !.present =
                      IF f \in @ THEN @ \ {f} ELSE @ \cup {f}]
    /\ reads' = {}
    /\ UNCHANGED <<prog, players_per_game, players_totals, team_summaries,
                   team_stats_pg, TABLES, pc, resp, inp, out>>

\* the files are replaced by a new release of the dataset
NewRelease ==
    /\ prog \in {"http", "stdio"}
    /\ disk.gen < NumVersions
    /\ disk' = [disk EXCEPT !.gen = @ + 1]
    /\ reads' = {}
    /\ UNCHANGED <<prog, players_per_game, players_totals, team_summaries,
                   team_stats_pg, TABLES, pc, resp, inp, out>>

NoInput == [op |-> "none"]

Init ==
    /\ prog \in {"http", "stdio"}
    /\ disk \in DiskStates(prog)
    /\ players_per_game = None
    /\ players_totals = None
    /\ team_summaries = None
    /\ team_stats_pg = None
    /\ TABLES = None
    /\ pc = "start"
    /\ reads = {}
    /\ resp = NoResponse
    /\ inp = NoInput
    /\ out = NoInput

Next == JsonRpc \/ Main \/ ToolCall \/ FileToggle \/ NewRelease

Spec == Init /\ [][Next]_vars

(***************************************************************************)
(* Values of the function specifications.  A string is a sequence of       *)
(* one-character strings; a missing cell (pandas NaN) of a text column is  *)
(* NA, of a numeric column NaN.                                            *)
(***************************************************************************)
NA == <<"NaN">>

LowerChar(c) ==
    CASE c = "L" -> "l"
      [] c = "A" -> "a"
      [] c = "K" -> "k"
      [] c = "B" -> "b"
      [] OTHER -> c

\* str.lower(); a missing cell stays missing
Lower(s) == IF s = NA THEN NA ELSE [i \in DOMAIN s |-> LowerChar(s[i])]

RECURSIVE Strip(_)
\* str.strip()
Strip(s) ==
    IF s = <<>> THEN s
    ELSE IF Head(s) = " " THEN Strip(Tail(s))
    ELSE IF s[Len(s)] = " " THEN Strip(SubSeq(s, 1, Len(s) - 1))
    ELSE s

\* df[mask]: the rows that satisfy the mask, in table order
SelectRows(rows, Mask(_)) == SelectSeq(rows, Mask)

\* what the server variables hold while a function specification runs
Idle ==
    /\ prog = "none"
    /\ disk = [dir |-> FALSE, present |-> {}, gen |-> 1]
    /\ players_per_game = None
    /\ players_totals = None
    /\ team_summaries = None
    /\ team_stats_pg = None
    /\ TABLES = None
    /\ pc = "start"
    /\ reads = {}
    /\ resp = NoResponse

(***************************************************************************)
(* http_stats_server.py: _match_team_row                                   *)
(***************************************************************************)
\* rows a team table holds at most
MaxTeamRows == 2

Seasons == {2000, 2001}

TeamNames == {<<"L", "a", "k">>, <<"A", "k">>}

Abbreviations == {<<"L", "A">>, <<"A", "K">>}

TeamRows ==
    [season : Seasons, team : TeamNames, abbreviation : Abbreviations,
     playoffs : {0, 1}]

\* the columns of a team table: "team", "abbreviation" and "playoffs" may
\* each be there or not; "season" always is
TeamColumns ==
    {{"team", "abbreviation", "playoffs"}, {"team", "playoffs"},
     {"team", "abbreviation"}, {"abbreviation", "playoffs"}}

SeqsUpTo(S, n) == UNION {[1..k -> S] : k \in 0..n}

TeamTables == [cols : TeamColumns, rows : SeqsUpTo(TeamRows, MaxTeamRows)]

TeamQueries ==
    {<<"l", "a", "k">>, <<"L", "A", "K">>, <<" ", "l", "a">>, <<"A", "K">>,
     <<"a">>, <<"l", ".", "k">>, <<".">>, <<"k", ".">>, <<>>, <<"b">>}

\* re.search(pat, s) for a pattern of literal characters and ".", which
\* matches any character: Series.str.contains(t) takes t as a regular
\* expression (regex=True is the default); na=False makes a missing cell False
StrContains(s, pat) ==
    /\ s # NA
    /\ \E i \in 1..(Len(s) + 1) :
          /\ i + Len(pat) - 1 <= Len(s)
          /\ \A j \in 1..Len(pat) : pat[j] = "." \/ pat[j] = s[i + j - 1]

\* _by_name_or_abbr(frame): exact name, else exact abbreviation, else
\* str.contains on the name
by_name_or_abbr(df, rows, t) ==
    LET byName(r) == Lower(r.team) = t
        byAbbr(r) == Lower(r.abbreviation) = t
        byContains(r) == StrContains(Lower(r.team), t)
        m1 == IF "team" \in df.cols THEN SelectRows(rows, byName) ELSE <<>>
        m2 == IF m1 = <<>> /\ "abbreviation" \in df.cols
              THEN SelectRows(rows, byAbbr) ELSE m1
    IN IF m2 = <<>> /\ "team" \in df.cols THEN SelectRows(rows, byContains) ELSE m2

\* _match_team_row(df, season, team): <<>> for None, else <<the row>>
match_team_row(df, season, team) ==
    LET inSeason(r) == r.season = season
        sub == SelectRows(df.rows, inSeason)
        t == Lower(Strip(team))
        m == by_name_or_abbr(df, sub, t)
        regular(r) == r.playoffs = 0
        reg == IF "playoffs" \in df.cols THEN SelectRows(m, regular) ELSE <<>>
    IN IF sub = <<>> THEN <<>>
       ELSE IF m = <<>> THEN <<>>
       ELSE IF reg # <<>> THEN <<reg[1]>>
       ELSE <<m[1]>>

MatchInputs ==
    [op : {"match_team_row"}, df : TeamTables, season : Seasons, team : TeamQueries]

InitMatch == Idle /\ inp \in MatchInputs /\ out = NoInput

\* _match_team_row applied to the drawn table and query
MatchTeamRowCall ==
    /\ inp.op = "match_team_row"
    /\ out.op = "none"
    /\ out' = [op |-> "match_team_row",
               row |-> match_team_row(inp.df, inp.season, inp.team)]
    /\ UNCHANGED <<serverVars, inp>>

NextMatch == MatchTeamRowCall

SpecMatch == InitMatch /\ [][NextMatch]_vars

(***************************************************************************)
(* top_scorers (server.py) and tool_top_scorers (http_stats_server.py)     *)
(***************************************************************************)
\* rows a per-game table holds at most in SpecTop
MaxTopRows == 2

\* largest n asked for
MaxN == 2

\* a missing cell of a numeric column; never equal to a value of the data
NaN == -1

\* per-game rows: load_tables() makes every player a string, so only team,
\* pts_per_game and g can be missing
TopRows ==
    [season : Seasons, player : {<<"A">>}, team : {<<"L">>, NA},
     pts_per_game : {NaN, 1, 2}, g : {NaN, 1}]

\* a table without the pts_per_game column has no points cells
TopTables ==
    {t \in [cols : {{"pts_per_game"}, {}}, rows : SeqsUpTo(TopRows, MaxTopRows)] :
        "pts_per_game" \notin t.cols =>
            \A i \in DOMAIN t.rows : t.rows[i].pts_per_game = NaN}

\* sort_values("pts_per_game", ascending=False): a precedes b
SortsBefore(a, b) == a # NaN /\ (b = NaN \/ a > b)

RECURSIVE InsertDesc(_, _)
InsertDesc(s, r) ==
    IF s = <<>> THEN <<r>>
    ELSE IF SortsBefore(r.pts_per_game, Head(s).pts_per_game) THEN <<r>> \o s
    ELSE <<Head(s)>> \o InsertDesc(Tail(s), r)

RECURSIVE SortDesc(_)
\* descending, missing values last, ties in table order
SortDesc(rows) ==
    IF rows = <<>> THEN <<>>
    ELSE InsertDesc(SortDesc(SubSeq(rows, 1, Len(rows) - 1)), rows[Len(rows)])

\* DataFrame.head(n): the first n rows; for n < 0 all but the last -n
HeadRows(rows, n) ==
    IF n >= 0 THEN SubSeq(rows, 1, IF n < Len(rows) THEN n ELSE Len(rows))
    ELSE SubSeq(rows, 1, Len(rows) + n)

\* .dropna() on the projected columns
Complete(r) ==
    r.player # NA /\ r.team # NA /\ r.pts_per_game # NaN /\ r.g # NaN

Project(r) ==
    [player |-> r.player, team |-> r.team, pts_per_game |-> r.pts_per_game, g |-> r.g]

ProjectAll(rows) == [i \in DOMAIN rows |-> Project(rows[i])]

\* top_scorers() without the .dropna()
top_scorersKeepMissing(per_game, season, n) ==
    LET inSeason(r) == r.season = season
        df == SelectRows(per_game.rows, inSeason)
    IN IF df = <<>> \/ "pts_per_game" \notin per_game.cols THEN <<>>
       ELSE HeadRows(SortDesc(ProjectAll(df)), n)

\* server.py top_scorers(season, n): the records of the JSON list
top_scorers(per_game, season, n) ==
    LET inSeason(r) == r.season = season
        df == SelectRows(per_game.rows, inSeason)
    IN IF df = <<>> \/ "pts_per_game" \notin per_game.cols THEN <<>>
       ELSE HeadRows(SortDesc(SelectRows(ProjectAll(df), Complete)), n)

\* http_stats_server.py tool_top_scorers(season, n) after _ensure_loaded():
\* the text returned and the rows its lines are printed from
TopScorersText(df, season, n) ==
    LET inSeason(r) == r.season = season
        sub == SelectRows(df.rows, inSeason)
    IN IF sub = <<>> THEN [text |-> "No season data for", lines |-> <<>>]
       ELSE IF "pts_per_game" \notin df.cols THEN [text |-> "KeyError", lines |-> <<>>]
       ELSE [text |-> "Top scorers", lines |-> HeadRows(SortDesc(sub), n)]

TopInputs ==
    [op : {"top"}, per_game : TopTables, season : Seasons, n : (-1)..MaxN]

InitTop == Idle /\ inp \in TopInputs /\ out = NoInput

\* server.py top_scorers applied to the drawn table
TopScorersCall ==
    /\ inp.op = "top"
    /\ out.op = "none"
    /\ out' = [op |-> "top_scorers",
               rows |-> top_scorers(inp.per_game, inp.season, inp.n)]
    /\ UNCHANGED <<serverVars, inp>>

\* http_stats_server.py tool_top_scorers applied to the drawn table
ToolTopScorersCall ==
    /\ inp.op = "top"
    /\ out.op = "none"
    /\ out' = [op |-> "tool_top_scorers",
               res |-> TopScorersText(inp.per_game, inp.season, inp.n)]
    /\ UNCHANGED <<serverVars, inp>>

NextTop == TopScorersCall \/ ToolTopScorersCall

SpecTop == InitTop /\ [][NextTop]_vars

(***************************************************************************)
(* Career averages: player_summary and compare_players (server.py),        *)
(* tool_compare_players (http_stats_server.py).  The three statistics pts, *)
(* ast and trb go through the same code with other column names; the model *)
(* carries pts.  A float is None, NaN, an infinity or the exact quotient   *)
(* n/d.                                                                    *)
(***************************************************************************)
\* rows a per-game table holds at most in SpecAgg
MaxRows == 2

NoneVal == [k |-> "None", n |-> 0, d |-> 1]

NaNVal == [k |-> "NaN", n |-> 0, d |-> 1]

InfVal == [k |-> "inf", n |-> 0, d |-> 1]

Num(n, d) == [k |-> "num", n |-> n, d |-> d]

\* float division as numpy does it: 0/0 is NaN, x/0 an infinity, no exception
FloatDiv(n, d) ==
    IF d = 0 THEN (IF n = 0 THEN NaNVal ELSE InfVal) ELSE Num(n, d)

\* two floats are the same value
SameVal(a, b) == a.k = b.k /\ (a.k = "num" => a.n * b.d = b.n * a.d)

\* bool(x): None and 0.0 are false, NaN and every other number true
Truthy(v) == v.k \in {"NaN", "inf"} \/ (v.k = "num" /\ v.n # 0)

\* x or y
Or(x, y) == IF Truthy(x) THEN x ELSE y

\* round(x, 2) if x is not None else None: in hundredths, ties to even
Round2(v) ==
    IF v.k # "num" THEN v
    ELSE LET q == (100 * v.n) \div v.d
             r == (100 * v.n) % v.d
         IN Num(IF 2 * r > v.d \/ (2 * r = v.d /\ q % 2 = 1) THEN q + 1 ELSE q, 100)

RECURSIVE SumSeq(_)
SumSeq(xs) == IF xs = <<>> THEN 0 ELSE Head(xs) + SumSeq(Tail(xs))

\* Series.sum() of F over the rows
SumOver(rows, F(_)) == SumSeq([i \in DOMAIN rows |-> F(rows[i])])

Players == {<<"A">>, <<"B">>}

PlayerRows == [player : Players, pts : {NaN, 0, 2}, g : {NaN, 0, 1, 2}]

\* a player table: the statistic's column may be absent (then its cells
\* are), "player" and "g" are there
PlayerTables ==
    {t \in [cols : {{"pts", "g"}, {"g"}}, rows : SeqsUpTo(PlayerRows, MaxRows)] :
        "pts" \notin t.cols => \A i \in DOMAIN t.rows : t.rows[i].pts = NaN}

\* the totals table of a summary input
SmallTables ==
    {t \in [cols : {{"pts", "g"}, {"g"}},
            rows : SeqsUpTo([player : Players, pts : {NaN, 2}, g : {NaN, 0, 1}], 1)] :
        "pts" \notin t.cols => \A i \in DOMAIN t.rows : t.rows[i].pts = NaN}

EmptyTable == [cols |-> {"pts", "g"}, rows |-> <<>>]

\* the per-36 / per-100 table of a compare input
OtherTables ==
    {EmptyTable,
     [cols |-> {"pts", "g"}, rows |-> <<[player |-> <<"A">>, pts |-> 2, g |-> 1]>>],
     [cols |-> {"g"}, rows |-> <<[player |-> <<"B">>, pts |-> NaN, g |-> 1]>>]}

\* sorted(set(df["player"].dropna().astype(str)))
Choices(df) == {df.rows[i].player : i \in DOMAIN df.rows}

\* _best_match(name, choices): the pairs (match, score) rapidfuzz may return.
\* Without choices: the name, 0.  WRatio is 100 for the identical string
\* only, so a name among the choices is returned; otherwise the best-scoring
\* choice, which may be any of them, at a score below 100.
best_match(name, choices) ==
    IF choices = {} THEN {<<name, 0>>}
    ELSE IF name \in choices THEN {<<name, 100>>}
    ELSE {<<c, sc>> : c \in choices, sc \in {0, 90}}

\* df[df["player"] == who]
RowsOf(df, who) ==
    LET isWho(r) == r.player = who
    IN [cols |-> df.cols, rows |-> SelectRows(df.rows, isWho)]

\* player_summary.wavg(df, num, den): sum(num * g) / sum(g) over the rows
\* that have both cells
summary_wavg(df) ==
    LET both(r) == r.pts # NaN /\ r.g # NaN
        sub == SelectRows(df.rows, both)
        prod(r) == r.pts * r.g
        den(r) == r.g
    IN IF "pts" \notin df.cols \/ "g" \notin df.cols THEN NoneVal
       ELSE IF sub = <<>> THEN NoneVal
       ELSE FloatDiv(SumOver(sub, prod), SumOver(sub, den))

\* player_summary(player) for the match m = (best, score) of _best_match;
\* career says whether the career-info table has rows of best
player_summary(per_game, totals, career, player, m) ==
    LET best == m[1]
        pdf == RowsOf(per_game, best)
        tdf == RowsOf(totals, best)
        pts == Or(summary_wavg(pdf), summary_wavg(tdf))
    IN IF pdf.rows = <<>> /\ tdf.rows = <<>> /\ best \notin career
       THEN [op |-> "player_summary", found |-> FALSE, match |-> NA, score |-> 0,
             pts |-> NoneVal]
       ELSE [op |-> "player_summary", found |-> TRUE, match |-> best, score |-> m[2],
             pts |-> Round2(pts)]

Bases == {"per_game", "per_36", "per_100"}

\* compare_players.career(subdf, who): one player's block
career(subdf, who) ==
    LET sub == RowsOf(subdf, who).rows
        hasG(r) == r.g # NaN
        gOf(r) == r.g
        gsum == SumOver(SelectRows(sub, hasG), gOf)
        both(r) == r.pts # NaN /\ r.g # NaN
        prod(r) == r.pts * r.g
        \* (sub[col] * sub["g"]).sum(): a product with a missing factor is skipped
        wavg == IF "pts" \notin subdf.cols \/ gsum = 0 THEN NoneVal
                ELSE FloatDiv(SumOver(SelectRows(sub, both), prod), gsum)
    IN IF sub = <<>> THEN [match |-> who, g |-> 0, pts |-> NoneVal]
       ELSE [match |-> who, g |-> gsum, pts |-> Round2(wavg)]

\* compare_players(player_a, player_b, basis) for the matches ma, mb
compare_players(tables, basis, ma, mb) ==
    LET b == IF basis \notin Bases THEN "per_game" ELSE basis
        df == tables[b]
    IN [op |-> "compare_players", basis |-> b, blocks |-> TRUE,
        player_a |-> [blk |-> career(df, ma[1]), score |-> ma[2]],
        player_b |-> [blk |-> career(df, mb[1]), score |-> mb[2]]]

\* Series.mean(): the mean of the cells that are there, NaN without any
Mean(rows) ==
    LET has(r) == r.pts # NaN
        val(r) == r.pts
        sub == SelectRows(rows, has)
    IN FloatDiv(SumOver(sub, val), Len(sub))

\* http_stats_server.py tool_compare_players(player_a, player_b, basis)
\* after _ensure_loaded(): names compared without case, basis not read
tool_compare(df, player_a, player_b, basis) ==
    LET isA(r) == Lower(r.player) = Lower(player_a)
        isB(r) == Lower(r.player) = Lower(player_b)
        A == SelectRows(df.rows, isA)
        B == SelectRows(df.rows, isB)
    IN IF A = <<>> \/ B = <<>>
       THEN [op |-> "tool_compare_players", blocks |-> FALSE,
             text |-> "Not enough data for comparison."]
       ELSE IF "pts" \notin df.cols
            THEN [op |-> "tool_compare_players", blocks |-> FALSE, text |-> "KeyError"]
       ELSE [op |-> "tool_compare_players", blocks |-> TRUE, text |-> "PPG APG RPG",
             player_a |-> Mean(A), player_b |-> Mean(B)]

QueryNames == {<<"A">>, <<"a">>, <<"C">>}

SummaryInputs ==
    [op : {"summary"}, per_game : PlayerTables, totals : SmallTables,
     career : {{}, {<<"A">>}}, player : {<<"A">>, <<"C">>}]

CompareInputs ==
    [op : {"compare"}, per_game : PlayerTables, other : OtherTables,
     player_a : QueryNames, player_b : {<<"A">>, <<"C">>},
     basis : Bases \cup {"per_48"}]

\* T.per_game, T.per36 and T.per100 of a compare input
BasisTables(i) ==
    [b \in Bases |-> IF b = "per_game" THEN i.per_game ELSE i.other]

InitAgg == Idle /\ inp \in SummaryInputs \cup CompareInputs /\ out = NoInput

\* server.py player_summary applied to the drawn tables and name
PlayerSummaryCall ==
    /\ inp.op = "summary"
    /\ out.op = "none"
    /\ \E m \in best_match(inp.player, Choices(inp.per_game)) :
          out' = player_summary(inp.per_game, inp.totals, inp.career, inp.player, m)
    /\ UNCHANGED <<serverVars, inp>>

\* server.py compare_players applied to the drawn tables, names and basis
ComparePlayersCall ==
    /\ inp.op = "compare"
    /\ out.op = "none"
    /\ LET t == BasisTables(inp)
           df == t[IF inp.basis \in Bases THEN inp.basis ELSE "per_game"]
       IN \E ma \in best_match(inp.player_a, Choices(df)),
             mb \in best_match(inp.player_b, Choices(df)) :
             out' = compare_players(t, inp.basis, ma, mb)
    /\ UNCHANGED <<serverVars, inp>>

\* http_stats_server.py tool_compare_players applied to the per-game table
ToolComparePlayersCall ==
    /\ inp.op = "compare"
    /\ out.op = "none"
    /\ out' = tool_compare(inp.per_game, inp.player_a, inp.player_b, inp.basis)
    /\ UNCHANGED <<serverVars, inp>>

NextAgg == PlayerSummaryCall \/ ComparePlayersCall \/ ToolComparePlayersCall

SpecAgg == InitAgg /\ [][NextAgg]_vars

(***************************************************************************)
(* Team summaries: team_summary (server.py) and tool_team_summary          *)
(* (http_stats_server.py).  The model carries which row the tool found and *)
(* whether it raised; the metrics printed from the row are left out.       *)
(***************************************************************************)
\* rows of the team-summaries table; a team name may be missing
TeamSummRows ==
    [season : Seasons, team : TeamNames \cup {NA}, abbreviation : Abbreviations,
     playoffs : {0, 1}]

\* Team Summaries.csv has the "team" column, which team_summary indexes
\* without a test; "abbreviation" and "playoffs" may each be there or not
TeamSummTables ==
    [cols : {c \in TeamColumns : "team" \in c},
     rows : SeqsUpTo(TeamSummRows, MaxTeamRows)]

\* the Team Stats Per Game table of a call: without rows, or with one team
TeamStatsTables ==
    {[cols |-> {"team", "abbreviation", "playoffs"}, rows |-> <<>>],
     [cols |-> {"team", "abbreviation", "playoffs"},
      rows |-> <<[season |-> 2000, team |-> <<"L", "a", "k">>,
                  abbreviation |-> <<"L", "A">>, playoffs |-> 0]>>]}

\* the "w" cell of the rows of the team-summaries table: missing or a number
WinCells == {NaN, 1}

\* int(row_sum.get("w", 0)): ValueError for a missing cell
IntRaises(w) == w = NaN

\* http_stats_server.py tool_team_summary(season, team) after
\* _ensure_loaded_teams(): the row printed, or the not-found text, or the
\* exception that leaves the tool
tool_team(summ, stats_pg, w, season, team) ==
    LET row_sum == match_team_row(summ, season, team)
        row_pg == match_team_row(stats_pg, season, team)
    IN IF row_sum = <<>>
       THEN [op |-> "tool_team_summary", kind |-> "notfound", row |-> <<>>,
             enriched |-> FALSE]
       ELSE IF IntRaises(w)
       THEN [op |-> "tool_team_summary", kind |-> "raised", row |-> <<>>,
             enriched |-> FALSE]
       ELSE [op |-> "tool_team_summary", kind |-> "found", row |-> row_sum,
             enriched |-> row_pg # <<>>]

\* server.py team_summary(season, team) for the match m = (best, score) of
\* _best_match over the season's team names
team_summary(summ, season, team, m) ==
    LET inSeason(r) == r.season = season
        df == SelectRows(summ.rows, inSeason)
        isBest(r) == r.team = m[1]
        row == HeadRows(SelectRows(df, isBest), 1)
    IN IF df = <<>>
       THEN [op |-> "team_summary", kind |-> "notfound", row |-> <<>>, score |-> 0]
       ELSE IF "team" \notin summ.cols
       THEN [op |-> "team_summary", kind |-> "raised", row |-> <<>>, score |-> 0]
       ELSE IF row = <<>>
       THEN [op |-> "team_summary", kind |-> "notfound", row |-> <<>>, score |-> 0]
       ELSE [op |-> "team_summary", kind |-> "found", row |-> row, score |-> m[2]]

\* sorted(set(df["team"].dropna().astype(str))) of the season's rows
TeamChoices(summ, season) ==
    {summ.rows[i].team : i \in {j \in DOMAIN summ.rows :
        summ.rows[j].season = season /\ summ.rows[j].team # NA}}

TeamInputs ==
    [op : {"team"}, df : TeamSummTables, stats_pg : TeamStatsTables, w : WinCells,
     season : Seasons, team : TeamQueries]

InitTeam == Idle /\ inp \in TeamInputs /\ out = NoInput

\* server.py team_summary applied to the drawn table and query
TeamSummaryCall ==
    /\ inp.op = "team"
    /\ out.op = "none"
    /\ \E m \in best_match(inp.team, TeamChoices(inp.df, inp.season)) :
          out' = team_summary(inp.df, inp.season, inp.team, m)
    /\ UNCHANGED <<serverVars, inp>>

\* http_stats_server.py tool_team_summary applied to the drawn tables and query
ToolTeamSummaryCall ==
    /\ inp.op = "team"
    /\ out.op = "none"
    /\ out' = tool_team(inp.df, inp.stats_pg, inp.w, inp.season, inp.team)
    /\ UNCHANGED <<serverVars, inp>>

NextTeam == TeamSummaryCall \/ ToolTeamSummaryCall

SpecTeam == InitTeam /\ [][NextTeam]_vars

(***************************************************************************)
(* http_stats_server.py: _pct, the percentage shown for a stored ratio.    *)
(* A stored value v is the exact quotient n / One; the cell may also be    *)
(* missing (NaN) or not there at all (row.get gives None).                 *)
(***************************************************************************)
\* 1.0, the threshold of _pct, in the unit of the stored values
One == 100

\* the factor of v * 100.0
PctFactor == 100

\* largest stored value, in units of 1 / One
MaxScaled == 150

PctCells == {NoneVal, NaNVal} \cup {Num(k, One) : k \in (0 - MaxScaled)..MaxScaled}

\* _pct with v < 1.0 for the test
pctStrict(x) ==
    IF x.k \in {"None", "NaN"} THEN NaNVal
    ELSE IF x.k = "inf" THEN x
    ELSE IF x.n < x.d THEN Num(PctFactor * x.n, x.d)
    ELSE x

\* _pct(x): float(None) raises and NaN is missing, both give NaN; a value
\* <= 1.0 is multiplied by 100.0, a larger one returned as it is
pct(x) ==
    IF x.k \in {"None", "NaN"} THEN NaNVal
    ELSE IF x.k = "inf" THEN x
    ELSE IF x.n <= x.d THEN Num(PctFactor * x.n, x.d)
    ELSE x

PctInputs == [op : {"pct"}, x : PctCells]

InitPct == Idle /\ inp \in PctInputs /\ out = NoInput

\* _pct applied to the drawn cell
PctCall ==
    /\ inp.op = "pct"
    /\ out.op = "none"
    /\ out' = [op |-> "pct", n |-> 1, first |-> pct(inp.x), last |-> pct(inp.x)]
    /\ UNCHANGED <<serverVars, inp>>

\* _pct applied to the value it returned
PctAgain ==
    /\ out.op = "pct"
    /\ out.n = 1
    /\ out' = [out EXCEPT !.n = 2, !.last = pct(out.first)]
    /\ UNCHANGED <<serverVars, inp>>

NextPct == PctCall \/ PctAgain

SpecPct == InitPct /\ [][NextPct]_vars

(***************************************************************************)
(* Claims about the two servers (checked under Spec)                       *)
(***************************************************************************)
\* a tool's return value reached the caller
QueryAnswered ==
    resp.kind = "result" /\ resp.msg \notin {"protocolVersion", "tools", "ok"}

\* the tables the running program holds, with their contents
LoadedTables ==
    {<<PerGameCsv, players_per_game>> : x \in {1 : y \in {players_per_game} \ {None}}}
    \cup {<<TotalsCsv, players_totals>> : x \in {1 : y \in {players_totals} \ {None}}}
    \cup {<<TeamSummCsv, team_summaries>> : x \in {1 : y \in {team_summaries} \ {None}}}
    \cup {<<TeamStatsCsv, team_stats_pg>> : x \in {1 : y \in {team_stats_pg} \ {None}}}
    \cup {<<"TABLES", TABLES>> : x \in {1 : y \in {TABLES} \ {None}}}

\* C1: every request that reaches the HTTP dispatcher gets one well-formed
\* response, a success result or a structured error with a code and a
\* message; no exception leaves the handler, and after any response, failed
\* ones included, the handler still serves the next request.
C1_EveryRequestAnswered ==
    (prog = "http" /\ resp.kind # "none") =>
        /\ resp.kind \in {"result", "error"}
        /\ resp.msg # ""
        /\ resp.kind = "error" => resp.code \in {-32601, -32000}
        /\ ENABLED JsonRpc

\* C1 witness: a tool raised after the player tables were loaded and the
\* caller got the -32000 error
C1_Witness ==
    /\ prog = "http"
    /\ resp.kind = "error" /\ resp.code = -32000
    /\ resp.msg \in {"AttributeError", "KeyError"}
    /\ players_per_game # None

\* C2: a query is answered only once the table load has completed: whenever
\* a tool result has been returned, every table of the running program is
\* loaded (so with a required file missing no query returns a result).
C2_NoAnswerBeforeFullLoad ==
    QueryAnswered =>
        IF prog = "http"
        THEN /\ players_per_game # None /\ players_totals # None
             /\ team_summaries # None /\ team_stats_pg # None
        ELSE TABLES # None

\* C3: loading is cached: a table that is loaded is never read from its
\* file again and stays the same instance; no step reads the file of a
\* table that was loaded before the step.
C3_LoadedTablesNeverReread ==
    [][/\ players_per_game # None =>
            players_per_game' = players_per_game /\ PerGameCsv \notin reads'
       /\ players_totals # None =>
            players_totals' = players_totals /\ TotalsCsv \notin reads'
       /\ team_summaries # None =>
            team_summaries' = team_summaries /\ TeamSummCsv \notin reads'
       /\ team_stats_pg # None =>
            team_stats_pg' = team_stats_pg /\ TeamStatsCsv \notin reads'
       /\ TABLES # None => TABLES' = TABLES /\ reads' = {}]_vars

\* C3 witness: a later request read only Player Totals.csv; the per-game
\* table loaded from an older release was kept and not read again
C3_Witness ==
    /\ prog = "http"
    /\ reads = {TotalsCsv}
    /\ players_per_game # None
    /\ players_totals # None
    /\ players_per_game # players_totals

\* C4: no query operation, whether it succeeds, finds nothing or fails,
\* changes a loaded table: every table loaded before a request is loaded
\* with the same contents after it.
C4_QueriesLeaveTablesUnchanged ==
    [][(resp' # resp \/ reads' # reads) => LoadedTables \subseteq LoadedTables']_vars

\* C4 witness: top_scorers answered from the per-game table loaded by an
\* earlier request (this one read nothing), which is still held
C4_Witness ==
    /\ prog = "http"
    /\ resp.kind = "result" /\ resp.msg = "Top scorers"
    /\ reads = {}
    /\ players_per_game # None

(***************************************************************************)
(* Claims about the row matcher (checked under SpecMatch)                  *)
(***************************************************************************)
\* t is a substring of s
IsSubstring(s, t) ==
    /\ s # NA
    /\ \E i \in 1..(Len(s) + 1) :
          /\ i + Len(t) - 1 <= Len(s)
          /\ \A j \in 1..Len(t) : t[j] = s[i + j - 1]

\* matchRow as the claim describes it, the query trimmed and compared
\* without case
MatchRowAsClaimed(df, season, team) ==
    LET t == Lower(Strip(team))
        inSeason(r) == r.season = season
        sub == SelectRows(df.rows, inSeason)
        byName(r) == "team" \in df.cols /\ Lower(r.team) = t
        byAbbr(r) == "abbreviation" \in df.cols /\ Lower(r.abbreviation) = t
        bySub(r) == "team" \in df.cols /\ IsSubstring(Lower(r.team), t)
        c1 == SelectRows(sub, byName)
        c2 == SelectRows(sub, byAbbr)
        c3 == SelectRows(sub, bySub)
        cand == IF c1 # <<>> THEN c1 ELSE IF c2 # <<>> THEN c2 ELSE c3
        regular(r) == "playoffs" \in df.cols /\ r.playoffs = 0
        reg == SelectRows(cand, regular)
    IN IF cand = <<>> THEN <<>>
       ELSE IF reg # <<>> THEN <<reg[1]>>
       ELSE <<cand[1]>>

\* C5: matchRow returns none when no row has the season; otherwise the first
\* row, regular-season rows preferred, among the candidates chosen by exact
\* name, else exact abbreviation, else substring of the name (all without
\* case), and none when there is no candidate.
C5_MatchRowAsClaimed ==
    out.op = "match_team_row" =>
        out.row = MatchRowAsClaimed(inp.df, inp.season, inp.team)

(***************************************************************************)
(* Claims about the season top-N (checked under SpecTop)                   *)
(***************************************************************************)
\* the points values of rows are numbers in non-increasing order
NonIncreasing(rows) ==
    \A i \in DOMAIN rows :
        /\ rows[i].pts_per_game # NaN
        /\ i > 1 => rows[i - 1].pts_per_game >= rows[i].pts_per_game

\* some row of the table has the season
SeasonHasRows(t, season) == \E i \in DOMAIN t.rows : t.rows[i].season = season

\* some row of the season has all four projected cells
SeasonHasCompleteRow(t, season) ==
    \E i \in DOMAIN t.rows : t.rows[i].season = season /\ Complete(t.rows[i])

\* the rows a call returned
Returned == IF out.op = "top_scorers" THEN out.rows ELSE out.res.lines

BothPresent(t) ==
    LET both(r) == r.pts # NaN /\ r.g # NaN
    IN SelectRows(t.rows, both)

WeightSum(t) ==
    LET w(r) == r.g
    IN SumOver(BothPresent(t), w)

\* the average has nothing to average: no row with both cells, weights that
\* sum to zero, or no value column
AvgUndefined(t) ==
    "pts" \notin t.cols \/ BothPresent(t) = <<>> \/ WeightSum(t) = 0

\* sum(value * weight) / sum(weight) over the rows with both cells
ClaimedAvg(t) ==
    LET vw(r) == r.pts * r.g
    IN IF AvgUndefined(t) THEN NoneVal
       ELSE Num(SumOver(BothPresent(t), vw), WeightSum(t))

\* the frame compare_players took its rows from
ComparedTable == BasisTables(inp)[out.basis]

\* C7: the weighted career average is missing (None), not a number, an
\* infinity or NaN, whenever it has nothing to average, in player_summary
\* (over the per-game rows and over the totals rows of the matched player)
\* and in compare_players (both blocks).
C7_UndefinedAverageIsMissing ==
    /\ (out.op = "player_summary" /\ out.found) =>
          \A t \in {RowsOf(inp.per_game, out.match), RowsOf(inp.totals, out.match)} :
              AvgUndefined(t) => summary_wavg(t).k = "None"
    /\ out.op = "compare_players" =>
          \A b \in {out.player_a.blk, out.player_b.blk} :
              AvgUndefined(RowsOf(ComparedTable, b.match)) => b.pts.k = "None"

\* C8: where the weighted career average is defined it is
\* sum(value * weight) / sum(weight) over exactly the rows with both cells,
\* in player_summary and in compare_players alike, so both report the same
\* average of the same rows.
C8_AverageOverRowsWithBoth ==
    /\ (out.op = "player_summary" /\ out.found) =>
          LET t == RowsOf(inp.per_game, out.match)
          IN ~AvgUndefined(t) => SameVal(summary_wavg(t), ClaimedAvg(t))
    /\ (out.op = "compare_players" /\ out.basis = "per_game") =>
          \A b \in {out.player_a.blk, out.player_b.blk} :
              LET t == RowsOf(inp.per_game, b.match)
              IN ~AvgUndefined(t) =>
                    /\ SameVal(b.pts, Round2(ClaimedAvg(t)))
                    /\ SameVal(b.pts, Round2(summary_wavg(t)))

\* C9: player_summary reports the per-game weighted average whenever the
\* per-game table has the column, a legitimate 0 included, and the
\* totals-based value only when the per-game table lacks the column.
C9_PerGameBeforeTotals ==
    (out.op = "player_summary" /\ out.found) =>
        LET pdf == RowsOf(inp.per_game, out.match)
            tdf == RowsOf(inp.totals, out.match)
        IN IF "pts" \in inp.per_game.cols
           THEN SameVal(out.pts, Round2(summary_wavg(pdf)))
           ELSE SameVal(out.pts, Round2(summary_wavg(tdf)))

\* C10: a comparison never fails for a name without rows: every result has
\* both player blocks and a basis field, the requested basis if it is one of
\* per_game / per_36 / per_100 and per_game otherwise, and the block of a
\* name without rows has missing averages.
C10_CompareAlwaysTwoBlocks ==
    out.op \in {"compare_players", "tool_compare_players"} =>
        /\ out.blocks
        /\ "basis" \in DOMAIN out
        /\ out.basis = (IF inp.basis \in Bases THEN inp.basis ELSE "per_game")
        /\ \A p \in {out.player_a, out.player_b} :
              RowsOf(ComparedTable, p.blk.match).rows = <<>> => p.blk.pts.k = "None"

(***************************************************************************)
(* Claims about the team summaries (checked under SpecTeam)                *)
(***************************************************************************)
\* the season has no rows, or the query matches no row of the season by
\* name, abbreviation or substring of the name
NoTeamMatches == MatchRowAsClaimed(inp.df, inp.season, inp.team) = <<>>

\* C11: teamSummary(season, team) returns a not-found result, raising
\* nothing and returning no team's row, whenever the season has no rows or
\* the query matches no row of the season by name, abbreviation or substring.
C11_NoMatchIsNotFound ==
    (out.op \in {"team_summary", "tool_team_summary"} /\ NoTeamMatches) =>
        /\ out.kind = "notfound"
        /\ out.row = <<>>

(***************************************************************************)
(* Claims about the percentage shown (checked under SpecPct)               *)
(***************************************************************************)
\* C12: for a stored number v, canon(v) = v * 100 when 0 <= v <= 1,
\* canon(v) = v when v > 1, and canon(canon(v)) = canon(v) when v > 1.
C12_PctCanon ==
    (out.op = "pct" /\ inp.x.k = "num") =>
        LET v == inp.x
        IN /\ (0 <= v.n /\ v.n <= One) => SameVal(out.first, Num(100 * v.n, One))
           /\ v.n > One => SameVal(out.first, v)
           /\ (out.n = 2 /\ v.n > One) => SameVal(out.last, out.first)

\* C12 witness: _pct was applied twice to a value above 1.0 and returned it
\* both times, and 1.0 itself is shown as 100
C12_Witness ==
    /\ out.op = "pct"
    /\ out.n = 2
    /\ inp.x.k = "num"
    /\ inp.x.n > One
    /\ SameVal(out.last, inp.x)
    /\ SameVal(pct(Num(One, One)), Num(100, 1))

====
